---- MODULE Spec2Model ----
(***************************************************************************)
(* PayPal MCP server: the credential slot of PayPalAuthService, the        *)
(* request and response interceptors of its axios instance, the input      *)
(* validator and the CallTool dispatcher.                                  *)
(*                                                                         *)
(* Time is in milliseconds, as Date.now() is.  Every network call is a     *)
(* suspension point: the step that issues it and the step that receives    *)
(* its reply are separate actions, and the clock may advance and other     *)
(* requests may run between them.                                          *)
(***************************************************************************)
EXTENDS Integers, Sequences, FiniteSets, TLC

(***************************************************************************)
(* Bounds of the model.                                                    *)
(***************************************************************************)
MaxTick == 1

(***************************************************************************)
(* Program constants.                                                      *)
(***************************************************************************)
SafetyMargin == 60000
MsPerSecond == 1000

Requests == {1, 2}
TickMs == SafetyMargin \div 2
Epoch == 2 * SafetyMargin
Lifetimes == {60, 90}

(***************************************************************************)
(* An optional value (undefined, or NaN for a number) is the empty         *)
(* sequence; a defined value v is <<v>>.                                   *)
(***************************************************************************)
Undefined == <<>>
Some(v) == <<v>>

(***************************************************************************)
(* The state.                                                              *)
(***************************************************************************)
VARIABLES
  now,        \* Date.now()
  tokenData,  \* PayPalAuthService.tokenData
  main,       \* position of PayPalMcpServer.run
  verified,   \* what verifyCredentials returned, once it has
  req,        \* the CallTool requests
  vPc,        \* position of a direct call of validateInput
  vIn,        \* its tool name and arguments
  vOut,       \* what it returned or threw
  tools,      \* the registries the dispatcher imports
  tokenCacheSeconds,  \* config.paypal.tokenCacheSeconds
  logLevel,   \* config.server.logLevel
  listed,     \* the response to the last ListTools request
  lPc,        \* position of the request whose log lines are followed
  lIn,        \* its tool call and the body of the reply to its resource call
  console,    \* the lines written to the console
  sPc,        \* position of a direct call of sanitizeForLogging
  sIn,        \* its argument
  sOut        \* what it returned, and what it returned for that

direct == <<vPc, vIn, vOut>>
settings == <<tools, tokenCacheSeconds, logLevel>>
logging == <<lPc, lIn, console>>
sanitizing == <<sPc, sIn, sOut>>
vars ==
  <<now, tokenData, main, verified, req, direct, settings, listed, logging,
    sanitizing>>

(***************************************************************************)
(* The credential slot, this.tokenData.  kind "null" is null, "object" a   *)
(* parsed JSON object, "text" a response body that is a string.            *)
(***************************************************************************)
NullToken ==
  [kind |-> "null", access_token |-> Undefined, token_type |-> Undefined,
   expires_in |-> Undefined, expiration |-> Undefined]

TextToken ==
  [kind |-> "text", access_token |-> Undefined, token_type |-> Undefined,
   expires_in |-> Undefined, expiration |-> Undefined]

TokenBody(tok, life) ==
  [kind |-> "object", access_token |-> Some(tok), token_type |-> Some("Bearer"),
   expires_in |-> Some(life), expiration |-> Undefined]

(* The bodies a 2xx reply of the token endpoint may carry. *)
TokenBodies(tok) ==
  {TokenBody(tok, life) : life \in Lifetimes}
    \cup {[TokenBody(tok, 90) EXCEPT !.access_token = Undefined], TextToken}

(* The replies of the token endpoint to the exchange that would issue tok. *)
TokenReplies(tok) ==
  {[kind |-> "network_error", body |-> NullToken],
   [kind |-> "non2xx", body |-> NullToken]}
    \cup {[kind |-> "ok", body |-> b] : b \in TokenBodies(tok)}

(* JavaScript truthiness of tokenData.expiration: undefined, NaN and 0 are falsy. *)
Truthy(n) == n # Undefined /\ n[1] # 0

(* A credential counted as valid at the very instant of its expiration. *)
TokenValidAtExpiry(td, t) ==
  /\ td.kind = "object"
  /\ Truthy(td.expiration)
  /\ td.expiration[1] >= t

(* The test of ensureAccessToken. *)
TokenValid(td, t) ==
  /\ td.kind = "object"
  /\ Truthy(td.expiration)
  /\ td.expiration[1] > t

(***************************************************************************)
(* getAccessToken once the reply of the token endpoint is in: the new      *)
(* slot, whether it threw, and the value it returned.  A reply that is not *)
(* 2xx makes axios.post throw before the slot is touched.  A 2xx reply is  *)
(* stored first; reading expires_in of null, or creating a property on a   *)
(* string, then throws a TypeError, which the catch turns into the         *)
(* authentication failure.                                                 *)
(***************************************************************************)
(* An expiration set from the configured cache time. *)
ExpirationFromConfig(body, t) ==
  IF body.expires_in = Undefined
    THEN Undefined
    ELSE Some(t + (tokenCacheSeconds * MsPerSecond))

Expiration(body, t) ==
  IF body.expires_in = Undefined
    THEN Undefined
    ELSE Some(t + (body.expires_in[1] * MsPerSecond) - SafetyMargin)

getAccessToken(td, reply, t) ==
  IF reply.kind # "ok"
    THEN [slot |-> td, threw |-> TRUE, ret |-> Undefined]
    ELSE IF reply.body.kind # "object"
      THEN [slot |-> reply.body, threw |-> TRUE, ret |-> Undefined]
      ELSE LET stored == [reply.body EXCEPT !.expiration = Expiration(reply.body, t)]
           IN [slot |-> stored, threw |-> FALSE, ret |-> stored.access_token]

(* The Authorization header built from the slot. *)
Bearer(td) == <<td.token_type, td.access_token>>

(***************************************************************************)
(* JSON values.  Each value carries its JavaScript type, named as Zod      *)
(* names it in its messages.  An object is a function from its keys to     *)
(* values, an array a sequence.  Numbers are integers.                     *)
(***************************************************************************)
JUndefined == [t |-> "undefined"]
JNull == [t |-> "null"]
JStr(s) == [t |-> "string", s |-> s]
JNum(n) == [t |-> "number", n |-> n]
JBool(b) == [t |-> "boolean", b |-> b]
JObj(f) == [t |-> "object", o |-> f]
JArr(a) == [t |-> "array", a |-> a]
EmptyObject == JObj([k \in {} |-> JUndefined])

(* data[key] of a JavaScript object. *)
GetKey(f, k) == IF k \in DOMAIN f THEN f[k] ELSE JUndefined

(* Some enumeration of a set of strings as a sequence. *)
RECURSIVE SetToSeq(_)
SetToSeq(S) ==
  IF S = {} THEN <<>>
  ELSE LET x == CHOOSE y \in S : TRUE IN <<x>> \o SetToSeq(S \ {x})

(* Array.prototype.join *)
RECURSIVE Join(_, _)
Join(seq, sep) ==
  IF seq = <<>> THEN ""
  ELSE IF Len(seq) = 1 THEN seq[1]
  ELSE seq[1] \o sep \o Join(Tail(seq), sep)

RECURSIVE Quoted(_)
Quoted(seq) ==
  IF seq = <<>> THEN <<>> ELSE <<"'" \o seq[1] \o "'">> \o Quoted(Tail(seq))

(***************************************************************************)
(* String formats.  A regular expression or a format check of Zod is       *)
(* modelled by the strings of the model's universe that satisfy it.        *)
(***************************************************************************)
Formats ==
  [none |-> {},
   email |-> {"buyer@example.com"},
   url |-> {"https://example.com/return"},
   datetime |-> {"2026-01-01T00:00:00Z"},
   decimal |-> {"10.00", "5"},
   card_number |-> {"4111111111111111"},
   card_expiry |-> {"1230"},
   card_code |-> {"123"},
   locale_code |-> {"en_US"}]

FormatMessage ==
  [none |-> "", email |-> "Invalid email", url |-> "Invalid url",
   datetime |-> "Invalid datetime", decimal |-> "Invalid",
   card_number |-> "Invalid", card_expiry |-> "Invalid",
   card_code |-> "Invalid", locale_code |-> "Invalid"]

(***************************************************************************)
(* Zod schemas.  min and max are optional values.  The shape of an object  *)
(* is the sequence of its keys in declaration order; unknownKeys is        *)
(* "strip" (the default of z.object) or "strict".                          *)
(***************************************************************************)
ZString(min, max, format) == [k |-> "string", min |-> min, max |-> max, format |-> format]
ZStr == ZString(Undefined, Undefined, "none")
ZStrMax(n) == ZString(Undefined, Some(n), "none")
ZFormat(format) == ZString(Undefined, Undefined, format)
ZNumber(min, max, positive) == [k |-> "number", min |-> min, max |-> max, positive |-> positive]
ZBoolean == [k |-> "boolean"]
ZEnum(values) == [k |-> "enum", values |-> values]
ZArray(element, min) == [k |-> "array", element |-> element, min |-> min]
ZObject(shape) == [k |-> "object", shape |-> shape, unknownKeys |-> "strip"]
ZStrict(schema) == [schema EXCEPT !.unknownKeys = "strict"]
Req(key, schema) == [key |-> key, schema |-> schema, optional |-> FALSE]
Opt(key, schema) == [key |-> key, schema |-> schema, optional |-> TRUE]

Issue(path, message) == [path |-> path, message |-> message]

InvalidType(expected, v, path) ==
  Issue(path, IF v.t = "undefined" THEN "Required"
              ELSE "Expected " \o expected \o ", received " \o v.t)

ShapeKeys(shape) == {shape[i].key : i \in 1..Len(shape)}

(* The checks of a ZodString, all of which run. *)
StringIssues(schema, s, path) ==
  (IF schema.min # Undefined /\ Len(s) < schema.min[1]
     THEN <<Issue(path, "String must contain at least "
                          \o ToString(schema.min[1]) \o " character(s)")>>
     ELSE <<>>)
  \o (IF schema.max # Undefined /\ Len(s) > schema.max[1]
        THEN <<Issue(path, "String must contain at most "
                             \o ToString(schema.max[1]) \o " character(s)")>>
        ELSE <<>>)
  \o (IF schema.format # "none" /\ s \notin Formats[schema.format]
        THEN <<Issue(path, FormatMessage[schema.format])>>
        ELSE <<>>)

NumberIssues(schema, n, path) ==
  (IF schema.min # Undefined /\ n < schema.min[1]
     THEN <<Issue(path, "Number must be greater than or equal to "
                          \o ToString(schema.min[1]))>>
     ELSE <<>>)
  \o (IF schema.max # Undefined /\ n > schema.max[1]
        THEN <<Issue(path, "Number must be less than or equal to "
                             \o ToString(schema.max[1]))>>
        ELSE <<>>)
  \o (IF schema.positive /\ n <= 0
        THEN <<Issue(path, "Number must be greater than 0")>>
        ELSE <<>>)

(***************************************************************************)
(* schema._parse: the issues found, in the order Zod reports them, and the *)
(* parsed output.  An object parses the keys of its shape in order,        *)
(* dropping every other key; a strict object then reports the other keys   *)
(* in one issue at the path of the object.                                 *)
(***************************************************************************)
RECURSIVE ZParse(_, _, _)
RECURSIVE ZParseShape(_, _, _, _)
RECURSIVE ZParseElements(_, _, _, _)

ZParseShape(shape, i, data, path) ==
  IF i > Len(shape) THEN [issues |-> <<>>, out |-> [k \in {} |-> JUndefined]]
  ELSE
    LET field == shape[i]
        v == GetKey(data, field.key)
        here == IF field.optional /\ v.t = "undefined"
                  THEN [issues |-> <<>>, out |-> JUndefined]
                  ELSE ZParse(field.schema, v, Append(path, field.key))
        rest == ZParseShape(shape, i + 1, data, path)
        set == here.out.t # "undefined" \/ field.key \in DOMAIN data
    IN [issues |-> here.issues \o rest.issues,
        out |-> IF set
                  THEN [k \in {field.key} \cup DOMAIN rest.out |->
                          IF k = field.key THEN here.out ELSE rest.out[k]]
                  ELSE rest.out]

ZParseElements(schema, i, a, path) ==
  IF i > Len(a) THEN [issues |-> <<>>, out |-> <<>>]
  ELSE
    LET here == ZParse(schema, a[i], Append(path, ToString(i - 1)))
        rest == ZParseElements(schema, i + 1, a, path)
    IN [issues |-> here.issues \o rest.issues, out |-> <<here.out>> \o rest.out]

ZParse(schema, v, path) ==
  CASE schema.k = "string" ->
         IF v.t # "string"
           THEN [issues |-> <<InvalidType("string", v, path)>>, out |-> v]
           ELSE [issues |-> StringIssues(schema, v.s, path), out |-> v]
    [] schema.k = "number" ->
         IF v.t # "number"
           THEN [issues |-> <<InvalidType("number", v, path)>>, out |-> v]
           ELSE [issues |-> NumberIssues(schema, v.n, path), out |-> v]
    [] schema.k = "boolean" ->
         IF v.t # "boolean"
           THEN [issues |-> <<InvalidType("boolean", v, path)>>, out |-> v]
           ELSE [issues |-> <<>>, out |-> v]
    [] schema.k = "enum" ->
         LET expected == Join(Quoted(schema.values), " | ") IN
         IF v.t # "string"
           THEN [issues |-> <<InvalidType(expected, v, path)>>, out |-> v]
           ELSE IF \E i \in 1..Len(schema.values) : schema.values[i] = v.s
             THEN [issues |-> <<>>, out |-> v]
             ELSE [issues |-> <<Issue(path, "Invalid enum value. Expected " \o expected
                                              \o ", received '" \o v.s \o "'")>>,
                   out |-> v]
    [] schema.k = "array" ->
         IF v.t # "array"
           THEN [issues |-> <<InvalidType("array", v, path)>>, out |-> v]
           ELSE
             LET short == IF schema.min # Undefined /\ Len(v.a) < schema.min[1]
                            THEN <<Issue(path, "Array must contain at least "
                                                 \o ToString(schema.min[1]) \o " element(s)")>>
                            ELSE <<>>
                 elements == ZParseElements(schema.element, 1, v.a, path)
             IN [issues |-> short \o elements.issues, out |-> JArr(elements.out)]
    [] schema.k = "object" ->
         IF v.t # "object"
           THEN [issues |-> <<InvalidType("object", v, path)>>, out |-> v]
           ELSE
             LET fields == ZParseShape(schema.shape, 1, v.o, path)
                 extraKeys == DOMAIN v.o \ ShapeKeys(schema.shape)
                 unrecognized ==
                   IF schema.unknownKeys = "strict" /\ extraKeys # {}
                     THEN <<Issue(path, "Unrecognized key(s) in object: "
                                          \o Join(Quoted(SetToSeq(extraKeys)), ", "))>>
                     ELSE <<>>
             IN [issues |-> fields.issues \o unrecognized, out |-> JObj(fields.out)]


(***************************************************************************)
(* The schemas of src/schemas.                                             *)
(***************************************************************************)
amountSchema ==
  ZObject(<<Req("currency_code", ZString(Some(3), Some(3), "none")),
            Req("value", ZFormat("decimal"))>>)

addressSchema ==
  ZObject(<<Opt("address_line_1", ZStr), Opt("address_line_2", ZStr),
            Opt("admin_area_1", ZStr), Opt("admin_area_2", ZStr),
            Opt("postal_code", ZStr),
            Req("country_code", ZString(Some(2), Some(2), "none"))>>)

nameSchema ==
  ZObject(<<Req("given_name", ZStr), Opt("surname", ZStr)>>)

payerSchema ==
  ZObject(<<Opt("name", nameSchema), Opt("email_address", ZFormat("email")),
            Opt("payer_id", ZStr), Opt("address", addressSchema)>>)

applicationContextSchema ==
  ZObject(<<Opt("brand_name", ZStr), Opt("locale", ZStr),
            Opt("landing_page", ZEnum(<<"LOGIN", "BILLING", "NO_PREFERENCE">>)),
            Opt("shipping_preference",
                ZEnum(<<"GET_FROM_FILE", "NO_SHIPPING", "SET_PROVIDED_ADDRESS">>)),
            Opt("user_action", ZEnum(<<"CONTINUE", "PAY_NOW">>)),
            Opt("return_url", ZFormat("url")), Opt("cancel_url", ZFormat("url"))>>)

createPaymentTokenSchema ==
  ZObject(<<
    Req("customer", ZObject(<<
      Opt("id", ZStr), Opt("email_address", ZFormat("email")),
      Opt("phone", ZObject(<<
        Req("phone_number", ZStr),
        Req("phone_type", ZEnum(<<"HOME", "WORK", "MOBILE", "OTHER">>))>>))>>)),
    Req("payment_source", ZObject(<<
      Req("card", ZObject(<<
        Req("number", ZFormat("card_number")), Req("expiry", ZFormat("card_expiry")),
        Req("name", ZStr), Req("security_code", ZFormat("card_code")),
        Opt("billing_address", addressSchema)>>))>>))>>)

createOrderSchema ==
  ZObject(<<
    Req("intent", ZEnum(<<"CAPTURE", "AUTHORIZE">>)),
    Req("purchase_units", ZArray(
      ZObject(<<
        Opt("reference_id", ZStr), Opt("description", ZStr),
        Opt("custom_id", ZStr), Opt("invoice_id", ZStr),
        Req("amount", amountSchema),
        Opt("payee", ZObject(<<Opt("email_address", ZFormat("email")),
                               Opt("merchant_id", ZStr)>>)),
        Opt("shipping", ZObject(<<Req("name", nameSchema),
                                  Req("address", addressSchema)>>))>>),
      Some(1))),
    Opt("payer", payerSchema),
    Opt("application_context", applicationContextSchema)>>)

captureOrderSchema ==
  ZObject(<<
    Req("order_id", ZStr),
    Opt("payment_source", ZObject(<<
      Req("token", ZObject(<<Req("id", ZStr), Req("type", ZStr)>>))>>))>>)

createPaymentSchema ==
  ZObject(<<
    Req("intent", ZEnum(<<"sale", "authorize", "order">>)),
    Req("payer", ZObject(<<
      Req("payment_method", ZEnum(<<"paypal", "credit_card">>)),
      Opt("funding_instruments", ZArray(
        ZObject(<<
          Req("credit_card", ZObject(<<
            Req("number", ZFormat("card_number")), Req("type", ZStr),
            Req("expire_month", ZNumber(Some(1), Some(12), FALSE)),
            Req("expire_year", ZNumber(Some(2000), Undefined, FALSE)),
            Req("cvv2", ZFormat("card_code")),
            Req("first_name", ZStr), Req("last_name", ZStr),
            Opt("billing_address", addressSchema)>>))>>),
        Undefined))>>)),
    Req("transactions", ZArray(
      ZObject(<<
        Req("amount", amountSchema),
        Opt("description", ZStr), Opt("custom", ZStr), Opt("invoice_number", ZStr),
        Opt("item_list", ZObject(<<
          Opt("items", ZArray(
            ZObject(<<
              Req("name", ZStr), Opt("sku", ZStr), Req("price", ZStr),
              Req("currency", ZString(Some(3), Some(3), "none")),
              Req("quantity", ZNumber(Undefined, Undefined, TRUE))>>),
            Undefined)),
          Opt("shipping_address", addressSchema)>>))>>),
      Undefined)),
    Req("redirect_urls", ZObject(<<Req("return_url", ZFormat("url")),
                                   Req("cancel_url", ZFormat("url"))>>))>>)

createSubscriptionSchema ==
  ZObject(<<
    Req("plan_id", ZStr),
    Opt("start_time", ZFormat("datetime")),
    Opt("quantity", ZStr),
    Opt("shipping_amount", amountSchema),
    Req("subscriber", ZObject(<<
      Req("name", nameSchema), Req("email_address", ZFormat("email")),
      Opt("shipping_address", addressSchema)>>)),
    Opt("application_context", applicationContextSchema)>>)

phoneSchema ==
  ZObject(<<Opt("country_code", ZStr), Req("national_number", ZStr),
            Opt("extension_number", ZStr),
            Opt("phone_type", ZEnum(<<"FAX", "HOME", "MOBILE", "OTHER", "PAGER">>))>>)

createProductSchema ==
  ZObject(<<
    Req("name", ZString(Some(1), Some(127), "none")),
    Opt("description", ZStrMax(256)),
    Req("type", ZEnum(<<"PHYSICAL", "DIGITAL", "SERVICE">>)),
    Opt("category", ZEnum(<<
      "ACCOMMODATION", "ACCESSORIES", "APPAREL", "ART", "AUTOMOTIVE", "BABY", "BOOKS",
      "COLLECTIBLES", "COMPUTER", "CRAFTS", "ELECTRONICS", "ENTERTAINMENT", "FITNESS",
      "FOOD", "FURNITURE", "GIFT_CARDS", "HEALTH", "HOME", "JEWELRY", "MERCHANDISE",
      "MUSIC", "OFFICE", "OTHER", "PETS", "PHOTOGRAPHY", "SERVICES", "SOFTWARE",
      "SPORTS", "TICKETS", "TOYS", "TRAVEL", "VIDEO_GAMES">>)),
    Opt("image_url", ZFormat("url")),
    Opt("home_url", ZFormat("url"))>>)

personNameSchema ==
  ZObject(<<Opt("given_name", ZStrMax(140)), Opt("surname", ZStrMax(140))>>)

createInvoiceSchema ==
  ZObject(<<
    Req("detail", ZObject(<<
      Opt("invoice_number", ZStrMax(25)), Opt("reference", ZStrMax(60)),
      Opt("invoice_date", ZFormat("datetime")),
      Req("currency_code", ZString(Some(3), Some(3), "none")),
      Opt("note", ZStrMax(4000)), Opt("term", ZStrMax(4000)), Opt("memo", ZStrMax(4000)),
      Opt("payment_term", ZObject(<<
        Req("term_type", ZEnum(<<"DUE_ON_RECEIPT", "DUE_ON_DATE_SPECIFIED", "NET_10",
                                 "NET_15", "NET_30", "NET_45", "NET_60", "NET_90">>)),
        Opt("due_date", ZFormat("datetime"))>>))>>)),
    Opt("invoicer", ZObject(<<
      Opt("name", personNameSchema), Opt("address", addressSchema),
      Opt("email_address", ZString(Undefined, Some(260), "email")),
      Opt("phones", ZArray(phoneSchema, Undefined)),
      Opt("website", ZString(Undefined, Some(2048), "url")),
      Opt("tax_id", ZStrMax(100)),
      Opt("logo_url", ZString(Undefined, Some(2048), "url"))>>)),
    Opt("primary_recipients", ZArray(
      ZObject(<<
        Opt("billing_info", ZObject(<<
          Opt("name", personNameSchema), Opt("address", addressSchema),
          Opt("email_address", ZString(Undefined, Some(260), "email")),
          Opt("phones", ZArray(phoneSchema, Undefined))>>)),
        Opt("shipping_info", ZObject(<<
          Opt("name", personNameSchema), Opt("address", addressSchema)>>))>>),
      Undefined)),
    Opt("items", ZArray(
      ZObject(<<
        Req("name", ZStrMax(200)), Opt("description", ZStrMax(1000)),
        Req("quantity", ZNumber(Undefined, Undefined, TRUE)),
        Req("unit_amount", amountSchema),
        Opt("tax", amountSchema), Opt("discount", amountSchema),
        Opt("unit_of_measure", ZStrMax(20))>>),
      Undefined)),
    Opt("configuration", ZObject(<<
      Opt("partial_payment", ZObject(<<
        Req("allow_partial_payment", ZBoolean),
        Opt("minimum_amount_due", amountSchema)>>)),
      Opt("allow_tip", ZBoolean),
      Opt("tax_calculated_after_discount", ZBoolean),
      Opt("tax_inclusive", ZBoolean)>>)),
    Opt("amount", ZObject(<<
      Opt("breakdown", ZObject(<<
        Opt("custom", ZObject(<<Req("label", ZStrMax(25)), Req("amount", amountSchema)>>)),
        Opt("shipping", amountSchema),
        Opt("discount", amountSchema)>>))>>))>>)

createPayoutSchema ==
  ZObject(<<
    Req("sender_batch_header", ZObject(<<
      Req("sender_batch_id", ZStrMax(50)),
      Opt("email_subject", ZStrMax(255)), Opt("email_message", ZStrMax(1000)),
      Opt("recipient_type", ZEnum(<<"EMAIL", "PHONE", "PAYPAL_ID">>))>>)),
    Req("items", ZArray(
      ZObject(<<
        Opt("recipient_type", ZEnum(<<"EMAIL", "PHONE", "PAYPAL_ID">>)),
        Req("amount", amountSchema),
        Opt("note", ZStrMax(1000)),
        Req("receiver", ZStrMax(127)),
        Opt("sender_item_id", ZStrMax(50))>>),
      Undefined))>>)

getUserInfoSchema == ZStrict(ZObject(<<>>))

createWebProfileSchema ==
  ZStrict(ZObject(<<
    Req("name", ZString(Some(1), Some(50), "none")),
    Opt("temporary", ZBoolean),
    Opt("flow_config", ZObject(<<
      Opt("landing_page_type", ZEnum(<<"billing", "login">>)),
      Opt("bank_txn_pending_url", ZFormat("url")),
      Opt("user_action", ZEnum(<<"commit", "continue">>)),
      Opt("return_uri_http_method", ZEnum(<<"GET", "POST">>))>>)),
    Opt("input_fields", ZObject(<<
      Opt("allow_note", ZBoolean),
      Opt("no_shipping", ZNumber(Some(0), Some(2), FALSE)),
      Opt("address_override", ZNumber(Some(0), Some(1), FALSE))>>)),
    Opt("presentation", ZObject(<<
      Opt("brand_name", ZStrMax(127)),
      Opt("logo_image", ZFormat("url")),
      Opt("locale_code", ZFormat("locale_code")),
      Opt("return_url_label", ZStrMax(50)),
      Opt("note_to_seller_label", ZStrMax(50))>>))>>))

(* Map of tool names to their validation schemas. *)
schemaMap ==
  [create_payment_token |-> createPaymentTokenSchema,
   create_order |-> createOrderSchema,
   capture_order |-> captureOrderSchema,
   create_payment |-> createPaymentSchema,
   create_subscription |-> createSubscriptionSchema,
   create_product |-> createProductSchema,
   create_invoice |-> createInvoiceSchema,
   create_payout |-> createPayoutSchema,
   get_userinfo |-> getUserInfoSchema,
   create_web_profile |-> createWebProfileSchema]

(* err.path.join('.') + ': ' + err.message, joined by ', ' *)
RECURSIVE FormatIssues(_)
FormatIssues(issues) ==
  IF issues = <<>> THEN <<>>
  ELSE <<Join(issues[1].path, ".") \o ": " \o issues[1].message>>
         \o FormatIssues(Tail(issues))

formattedErrors(issues) == Join(FormatIssues(issues), ", ")

(***************************************************************************)
(* A call of logger.error, logger.warn, logger.info or logger.debug: the   *)
(* level, the message and the further arguments.  An argument is a JSON    *)
(* value, or an Error with its message.                                    *)
(***************************************************************************)
LogCall(level, message, args) == [level |-> level, message |-> message, args |-> args]
JError(message) == [t |-> "error", s |-> message]

(* A validator that rejects the arguments of a tool it has no schema for. *)
validateInputSchemaRequired(toolName, args) ==
  IF toolName \notin DOMAIN schemaMap
    THEN [threw |-> TRUE, warned |-> FALSE, value |-> JUndefined, issues |-> <<>>,
          message |-> "Invalid parameters for " \o toolName \o ": no schema",
          logs |-> <<>>]
    ELSE [threw |-> FALSE, warned |-> FALSE,
          value |-> ZParse(schemaMap[toolName], args, <<>>).out, issues |-> <<>>,
          message |-> "", logs |-> <<>>]

(***************************************************************************)
(* validateInput: the arguments themselves for a tool without a schema     *)
(* (after a warning), the parsed arguments when they conform, and          *)
(* otherwise an McpError InvalidParams with every issue in its message.    *)
(* logs are the calls it makes of the logger.                              *)
(***************************************************************************)
validateInput(toolName, args) ==
  IF toolName \notin DOMAIN schemaMap
    THEN [threw |-> FALSE, warned |-> TRUE, value |-> args, issues |-> <<>>,
          message |-> "",
          logs |-> <<LogCall("warn",
                             "No validation schema found for tool: " \o toolName,
                             <<>>)>>]
    ELSE
      LET parsed == ZParse(schemaMap[toolName], args, <<>>) IN
        IF parsed.issues = <<>>
          THEN [threw |-> FALSE, warned |-> FALSE, value |-> parsed.out,
                issues |-> <<>>, message |-> "", logs |-> <<>>]
          ELSE [threw |-> TRUE, warned |-> FALSE, value |-> JUndefined,
                issues |-> parsed.issues,
                message |-> "Invalid parameters for " \o toolName \o ": "
                              \o formattedErrors(parsed.issues),
                logs |-> <<LogCall("error", "Validation error for " \o toolName \o ":",
                                   <<JStr(formattedErrors(parsed.issues))>>)>>]

(***************************************************************************)
(* sanitizeForLogging.  key.toLowerCase() is given for the keys of the     *)
(* model that have an upper-case letter; every other key of the model is   *)
(* its own lower case.                                                     *)
(***************************************************************************)
Lowered ==
  [clientSecret |-> "clientsecret", Token |-> "token", cardNumber |-> "cardnumber",
   CVV |-> "cvv"]
ToLowerCase(key) == IF key \in DOMAIN Lowered THEN Lowered[key] ELSE key

sensitiveFields ==
  <<"client_secret", "clientSecret", "secret", "password", "security_code", "cvv",
    "cvv2", "card_number", "number", "access_token", "refresh_token", "token">>
Includes(seq, x) == \E i \in 1..Len(seq) : seq[i] = x

Redacted == JStr("[REDACTED]")
IsObject(v) == v.t \in {"object", "array"}
TypeOf(v) == IF v.t \in {"object", "array", "null"} THEN "object" ELSE v.t

(* A sanitizer whose marker tells the type of the value it stands for. *)
RECURSIVE sanitizeRecordingType(_)
sanitizeRecordingType(data) ==
  IF ~IsObject(data) THEN data
  ELSE IF data.t = "array"
    THEN JArr([i \in 1..Len(data.a) |->
                 IF IsObject(data.a[i]) THEN sanitizeRecordingType(data.a[i])
                                        ELSE data.a[i]])
    ELSE JObj([key \in DOMAIN data.o |->
                 IF Includes(sensitiveFields, ToLowerCase(key))
                   THEN JStr("[REDACTED " \o TypeOf(data.o[key]) \o "]")
                 ELSE IF IsObject(data.o[key]) THEN sanitizeRecordingType(data.o[key])
                 ELSE data.o[key]])

(***************************************************************************)
(* A falsy value or a value that is not an object is returned as it is;    *)
(* of a copy of an array or object, every property whose lower-cased key   *)
(* is a sensitive field becomes the marker, and every other property that  *)
(* is an object or array is sanitized in turn.  The keys of an array are   *)
(* its indices, none of which is a sensitive field.                        *)
(***************************************************************************)
RECURSIVE sanitizeForLogging(_)
sanitizeForLogging(data) ==
  IF ~IsObject(data) THEN data
  ELSE IF data.t = "array"
    THEN JArr([i \in 1..Len(data.a) |->
                 IF IsObject(data.a[i]) THEN sanitizeForLogging(data.a[i])
                                        ELSE data.a[i]])
    ELSE JObj([key \in DOMAIN data.o |->
                 IF Includes(sensitiveFields, ToLowerCase(key)) THEN Redacted
                 ELSE IF IsObject(data.o[key]) THEN sanitizeForLogging(data.o[key])
                 ELSE data.o[key]])

(* The tool registries: the names, in order. *)
paymentTools ==
  <<"create_payment_token", "create_order", "capture_order", "create_payment",
    "create_subscription">>

businessTools ==
  <<"create_product", "create_invoice", "create_payout", "get_product", "get_invoice">>

userTools ==
  <<"get_userinfo", "create_web_profile", "get_web_profiles", "get_web_profile",
    "update_web_profile", "delete_web_profile">>

Names(registry) == {registry[i] : i \in 1..Len(registry)}

(* getToolHandler: the defined handler of the first registry that has the name. *)
getToolHandler(toolName) ==
  IF toolName \in Names(tools.payment) THEN Some(toolName)
  ELSE IF toolName \in Names(tools.business) THEN Some(toolName)
  ELSE IF toolName \in Names(tools.user) THEN Some(toolName)
  ELSE Undefined

(* A list of the payment and business registries only. *)
allToolsWithoutUser == tools.payment \o tools.business

(* [...paymentTools, ...businessTools, ...userTools] *)
allTools == tools.payment \o tools.business \o tools.user

(* `${args.key}` in a template string. *)
Interpolate(args, key) ==
  IF args.t = "object" /\ GetKey(args.o, key).t = "string"
    THEN GetKey(args.o, key).s
    ELSE "undefined"

(* The message of the domain error each tool handler throws on a failed call. *)
HandlerFailure(toolName, args) ==
  CASE toolName = "create_payment_token" -> "Failed to create payment token"
    [] toolName = "create_order" -> "Failed to create order"
    [] toolName = "capture_order" ->
         "Failed to capture order " \o Interpolate(args, "order_id")
    [] toolName = "create_payment" -> "Failed to create payment"
    [] toolName = "create_subscription" -> "Failed to create subscription"
    [] toolName = "create_product" -> "Failed to create product"
    [] toolName = "create_invoice" -> "Failed to create invoice"
    [] toolName = "create_payout" -> "Failed to create payout"
    [] toolName = "get_product" ->
         "Failed to get product " \o Interpolate(args, "product_id")
    [] toolName = "get_invoice" ->
         "Failed to get invoice " \o Interpolate(args, "invoice_id")
    [] toolName = "get_userinfo" -> "Failed to get user information"
    [] toolName = "create_web_profile" -> "Failed to create web profile"
    [] toolName = "get_web_profiles" -> "Failed to get web profiles"
    [] toolName = "get_web_profile" ->
         "Failed to get web profile " \o Interpolate(args, "profile_id")
    [] toolName = "update_web_profile" ->
         "Failed to update web profile " \o Interpolate(args, "profile_id")
    [] toolName = "delete_web_profile" ->
         "Failed to delete web profile " \o Interpolate(args, "profile_id")

AuthFailureMessage == "Failed to authenticate with PayPal API"

(***************************************************************************)
(* The inputs of the model.                                                *)
(***************************************************************************)
UsdAmount == JObj([currency_code |-> JStr("USD"), value |-> JStr("10.00")])
OrderArgs ==
  JObj([intent |-> JStr("CAPTURE"),
        purchase_units |-> JArr(<<JObj([amount |-> UsdAmount])>>)])
OrderArgsNoUnits == JObj([intent |-> JStr("CAPTURE")])

(* The CallTool requests a client sends. *)
ToolCalls ==
  {[name |-> "create_order", args |-> OrderArgs],
   [name |-> "create_order", args |-> OrderArgsNoUnits],
   [name |-> "no_such_tool", args |-> EmptyObject]}

(* The replies of a resource endpoint; a network failure carries no response. *)
HttpReply(status) == [kind |-> "response", status |-> status]
NetworkError == [kind |-> "network_error", status |-> 0]
ResourceReplies ==
  {HttpReply(200), HttpReply(401), HttpReply(403), HttpReply(500), NetworkError}

(* What the gateway rejected a call with: nothing, a reply, or the error of *)
(* getAccessToken.                                                          *)
NoError == [kind |-> "none", status |-> 0]
AuthFailure == [kind |-> "auth_failure", status |-> 0]

(* A response interceptor that ignores the retry flag. *)
shouldRetryAgain(reply, isRetry) ==
  reply.kind = "response" /\ reply.status = 401

(* A response interceptor that refreshes and replays on every rejected reply. *)
shouldRetryAnyStatus(reply, isRetry) ==
  reply.kind = "response" /\ reply.status # 200 /\ ~isRetry

(* The response interceptor replays a call on a 401 of a call that is not a replay. *)
shouldRetry(reply, isRetry) ==
  reply.kind = "response" /\ reply.status = 401 /\ ~isRetry

(***************************************************************************)
(* What the model records of a slot read at time t: whether it held a      *)
(* credential whose expiration lay in the future, and the token it held.   *)
(***************************************************************************)
Unexpired(td, t) ==
  /\ td.kind = "object"
  /\ td.expiration # Undefined
  /\ t < td.expiration[1]

(* How an exchange with the token endpoint went. *)
Exchange(reply) ==
  IF reply.kind # "ok" THEN reply.kind
  ELSE IF reply.body.kind = "object" /\ reply.body.access_token # Undefined
                                     /\ reply.body.expires_in # Undefined
    THEN "ok"
    ELSE "malformed"

(***************************************************************************)
(* The call getAccessToken makes to the token endpoint: axios.post on the  *)
(* axios module, not on this.axiosInstance, to the full URL, with the      *)
(* Basic header of clientId:clientSecret.  The interceptors are those of   *)
(* this.axiosInstance: a call made on it passes the request interceptor,   *)
(* which leaves a call to the URL '/v1/oauth2/token' as it is and for any  *)
(* other checks the credential and attaches the Bearer header, and its     *)
(* rejection passes the response interceptor.  checks counts the           *)
(* credential checks the call has triggered.                               *)
(***************************************************************************)
BasicAuth == <<"Basic", "clientId:clientSecret">>
NoTokenCall ==
  [client |-> "none", url |-> "", Authorization |-> Undefined, checks |-> 0]

(* A token call made on the instance that carries the interceptors. *)
tokenRequestOnInstance ==
  [client |-> "axiosInstance", url |-> "baseUrl/v1/oauth2/token",
   Authorization |-> Some(BasicAuth), checks |-> 0]

tokenRequest ==
  [client |-> "axios", url |-> "baseUrl/v1/oauth2/token",
   Authorization |-> Some(BasicAuth), checks |-> 0]

Intercepted(config) == config.client = "axiosInstance"

requestInterceptor(config, td) ==
  IF ~Intercepted(config) \/ config.url = "/v1/oauth2/token"
    THEN config
    ELSE [config EXCEPT !.checks = @ + 1,
                        !.Authorization = IF td.kind # "null"
                                            THEN Some(Bearer(td)) ELSE @]

(***************************************************************************)
(* The record of one call of ensureAccessToken: where it was called from,  *)
(* whether the slot was unexpired and which token it held at the call, the *)
(* token exchanges made, how the last one went, and what was returned.     *)
(***************************************************************************)
NoEnsure ==
  [site |-> "none", status |-> "none", unexpired |-> FALSE, cached |-> Undefined,
   calls |-> 0, exchange |-> "none", ret |-> Undefined,
   call |-> NoTokenCall]

(***************************************************************************)
(* What a CallTool request ends with: a protocol error (a thrown           *)
(* McpError), or a protocol response with its content and isError flag.    *)
(***************************************************************************)
NoResponse ==
  [protocol |-> "none", code |-> "", message |-> "", content |-> <<>>, isError |-> FALSE]
McpError(code, message) ==
  [protocol |-> "error", code |-> code, message |-> message, content |-> <<>>,
   isError |-> FALSE]
TextItem(text) == [type |-> "text", text |-> text]
(* JSON.stringify of the body of the reply to the n-th resource call of request r. *)
Stringify(r, n) == "body-" \o ToString(r) \o "-" \o ToString(n)
ToolResult(text) ==
  [protocol |-> "response", code |-> "", message |-> "",
   content |-> <<TextItem(text)>>, isError |-> FALSE]
ToolError(message) ==
  [protocol |-> "response", code |-> "", message |-> "",
   content |-> <<TextItem("Error: " \o message)>>, isError |-> TRUE]

(***************************************************************************)
(* A CallTool request.  pc is its position: "ensure_wait" in the token     *)
(* exchange of the dispatcher, "token_ensured" after its credential check, *)
(* "intercept" once the handler has called axios,                          *)
(* "intercept_wait" in the token exchange of the request interceptor,      *)
(* "res_wait" in the resource call, "retry_wait" in the token exchange of  *)
(* the response interceptor, "done" once the response is produced.         *)
(* tokCalls and resCalls count the calls made to the token endpoint and to *)
(* the resource endpoint, isRetry is config.__isRetry, hdr the             *)
(* Authorization header of the request config, sentUnexpired whether the   *)
(* slot was unexpired when the last resource call was sent, replies the    *)
(* replies of the resource endpoint, gwError what the gateway rejected     *)
(* with.                                                                   *)
(***************************************************************************)
IdleRequest ==
  [pc |-> "idle", name |-> "", args |-> JUndefined, validated |-> JUndefined,
   validation |-> "none", invoked |-> 0, tokCalls |-> 0, resCalls |-> 0,
   isRetry |-> FALSE, hdr |-> Undefined, sentUnexpired |-> FALSE,
   ens |-> NoEnsure, replies |-> <<>>, gwError |-> NoError, response |-> NoResponse]

NoValidation ==
  [threw |-> FALSE, warned |-> FALSE, value |-> JUndefined, issues |-> <<>>,
   message |-> "", logs |-> <<>>]

Constructed ==
  /\ now = Epoch
  /\ tokenData = NullToken
  /\ main = "constructed"
  /\ verified = Undefined
  /\ req = [r \in Requests |-> IdleRequest]

(* The configuration read from an environment that sets none of it. *)
DefaultTokenCacheSeconds == 3500
ShippedTools ==
  [payment |-> paymentTools, business |-> businessTools, user |-> userTools]
DefaultSettings ==
  /\ tools = ShippedTools
  /\ tokenCacheSeconds = DefaultTokenCacheSeconds
  /\ logLevel = "info"

NoToolCall == [name |-> "", args |-> JUndefined]

(* No function is called directly, no log is followed, no list was asked. *)
NoDirect ==
  /\ vPc = "off"
  /\ vIn = NoToolCall
  /\ vOut = NoValidation
NoListing == listed = Undefined
NoLogging ==
  /\ lPc = "off"
  /\ lIn = [call |-> NoToolCall, data |-> JUndefined]
  /\ console = <<>>
NoSanitizing ==
  /\ sPc = "off"
  /\ sIn = JUndefined
  /\ sOut = [once |-> JUndefined, twice |-> JUndefined]

Init ==
  /\ Constructed
  /\ DefaultSettings
  /\ NoDirect
  /\ NoListing
  /\ NoLogging
  /\ NoSanitizing

(***************************************************************************)
(* An ensureAccessToken that joins the exchange another request has in     *)
(* flight instead of starting its own.                                     *)
(***************************************************************************)
ensureAccessTokenSingleFlight(q, site, td, t) ==
  IF TokenValid(td, t)
    THEN [q EXCEPT !.ens = [site |-> site, status |-> "returned",
                            unexpired |-> Unexpired(td, t),
                            cached |-> td.access_token, calls |-> 0,
                            exchange |-> "none", ret |-> td.access_token,
                            call |-> NoTokenCall]]
    ELSE LET joins == \E o \in Requests : req[o].ens.status = "pending" IN
      [q EXCEPT !.ens = [site |-> site, status |-> "pending",
                         unexpired |-> Unexpired(td, t),
                         cached |-> td.access_token,
                         calls |-> IF joins THEN 0 ELSE 1,
                         exchange |-> "none", ret |-> Undefined,
                         call |-> IF joins THEN NoTokenCall
                                  ELSE requestInterceptor(tokenRequest, td)],
                !.tokCalls = IF joins THEN @ ELSE @ + 1]

(***************************************************************************)
(* ensureAccessToken up to its suspension point: it returns the cached     *)
(* token, or calls getAccessToken, which issues one token exchange.        *)
(***************************************************************************)
ensureAccessToken(q, site, td, t) ==
  IF TokenValid(td, t)
    THEN [q EXCEPT !.ens = [site |-> site, status |-> "returned",
                            unexpired |-> Unexpired(td, t),
                            cached |-> td.access_token, calls |-> 0,
                            exchange |-> "none", ret |-> td.access_token,
                            call |-> NoTokenCall]]
    ELSE [q EXCEPT !.ens = [site |-> site, status |-> "pending",
                            unexpired |-> Unexpired(td, t),
                            cached |-> td.access_token, calls |-> 1,
                            exchange |-> "none", ret |-> Undefined,
                            call |-> requestInterceptor(tokenRequest, td)],
                   !.tokCalls = @ + 1]

(* ensureAccessToken once getAccessToken has returned or thrown. *)
ensureReturned(q, got, reply) ==
  [q EXCEPT !.ens.status = IF got.threw THEN "threw" ELSE "returned",
            !.ens.exchange = Exchange(reply),
            !.ens.ret = got.ret]

(***************************************************************************)
(* The response is produced and the request context is discarded: the      *)
(* request config with its header and retry flag, and the record of the    *)
(* last credential check.                                                  *)
(***************************************************************************)
respond(q, response) ==
  [q EXCEPT !.pc = "done", !.response = response, !.hdr = Undefined,
            !.isRetry = FALSE, !.sentUnexpired = FALSE, !.ens = NoEnsure]

(* The token the next exchange of request r is answered with. *)
NextToken(r, q) == <<r, q.tokCalls>>

(***************************************************************************)
(* The dispatcher after its credential check: resolve the handler,         *)
(* validate the arguments, call the handler, which calls axios.            *)
(***************************************************************************)
dispatch(q) ==
  IF getToolHandler(q.name) = Undefined
    THEN respond(q, McpError("MethodNotFound", "Unknown tool: " \o q.name))
    ELSE
      LET v == validateInput(q.name, q.args) IN
        IF v.threw
          THEN respond([q EXCEPT !.validation = "failed"],
                       McpError("InvalidParams", v.message))
          ELSE [q EXCEPT !.pc = "intercept",
                         !.validation = IF v.warned THEN "passthrough" ELSE "passed",
                         !.validated = v.value,
                         !.invoked = @ + 1]

(* A handler that puts what the gateway rejected with into its message. *)
handlerFailedLeaking(q, error) ==
  respond([q EXCEPT !.gwError = error],
          ToolError(HandlerFailure(q.name, q.validated) \o ": " \o error.kind
                      \o " " \o ToString(error.status)))

(* A dispatcher that rethrows the handler's error as a protocol error. *)
handlerFailedRethrown(q, error) ==
  respond([q EXCEPT !.gwError = error],
          McpError("InternalError", HandlerFailure(q.name, q.validated)))

(* The handler's catch and the dispatcher's catch, for a rejected gateway call. *)
handlerFailed(q, error) ==
  respond([q EXCEPT !.gwError = error],
          ToolError(HandlerFailure(q.name, q.validated)))

(* The request interceptor after its credential check: attach and send. *)
send(q, td, t) ==
  [q EXCEPT !.pc = "res_wait",
            !.hdr = IF td.kind # "null" THEN Some(Bearer(td)) ELSE @,
            !.resCalls = @ + 1,
            !.sentUnexpired = Unexpired(td, t)]

(***************************************************************************)
(* The clock advances.  The clock is read to compare it with the           *)
(* expiration of the slot and to set that expiration; time that passes     *)
(* while the slot holds no unexpired credential changes neither, so time   *)
(* passes in the model while one is held.                                  *)
(***************************************************************************)
Tick ==
  /\ now + TickMs <= Epoch + (MaxTick * TickMs)
  /\ TokenValid(tokenData, now)
  /\ now' = now + TickMs
  /\ UNCHANGED <<tokenData, main, verified, req, direct, settings, listed, logging, sanitizing>>

(* run calls verifyCredentials, which issues a token exchange. *)
StartVerify ==
  /\ main = "constructed"
  /\ main' = "verifying"
  /\ UNCHANGED <<now, tokenData, verified, req, direct, settings, listed, logging, sanitizing>>

(* The exchange of verifyCredentials returns; run connects the transport. *)
VerifyReply ==
  /\ main = "verifying"
  /\ \E reply \in TokenReplies(<<0, 1>>) :
       LET got == getAccessToken(tokenData, reply, now) IN
         /\ tokenData' = got.slot
         /\ verified' = Some(~got.threw)
  /\ main' = "serving"
  /\ UNCHANGED <<now, req, direct, settings, listed, logging, sanitizing>>

(* A CallTool request arrives: the dispatcher checks the credential. *)
CallTool(r) ==
  /\ main = "serving"
  /\ req[r].pc = "idle"
  /\ \E call \in ToolCalls :
       LET q == ensureAccessToken(
                  [IdleRequest EXCEPT !.name = call.name, !.args = call.args],
                  "dispatcher", tokenData, now)
       IN req' = [req EXCEPT ![r] = IF q.ens.status = "returned"
                                      THEN [q EXCEPT !.pc = "token_ensured"]
                                      ELSE [q EXCEPT !.pc = "ensure_wait"]]
  /\ UNCHANGED <<now, tokenData, main, verified, direct, settings, listed, logging, sanitizing>>

(* The token exchange of the dispatcher's credential check returns. *)
EnsureReply(r) ==
  /\ req[r].pc = "ensure_wait"
  /\ \E reply \in TokenReplies(NextToken(r, req[r])) :
       LET got == getAccessToken(tokenData, reply, now)
           q == ensureReturned(req[r], got, reply)
       IN /\ tokenData' = got.slot
          /\ req' = [req EXCEPT ![r] =
                       IF got.threw
                         THEN respond(q, ToolError(AuthFailureMessage))
                         ELSE [q EXCEPT !.pc = "token_ensured"]]
  /\ UNCHANGED <<now, main, verified, direct, settings, listed, logging, sanitizing>>

(* The dispatcher goes on after its credential check. *)
Dispatch(r) ==
  /\ req[r].pc = "token_ensured"
  /\ req' = [req EXCEPT ![r] = dispatch(req[r])]
  /\ UNCHANGED <<now, tokenData, main, verified, direct, settings, listed, logging, sanitizing>>

(* The request interceptor runs for the call, or for its replay. *)
RequestInterceptor(r) ==
  /\ req[r].pc = "intercept"
  /\ LET q == ensureAccessToken(req[r], "request", tokenData, now) IN
       req' = [req EXCEPT ![r] = IF q.ens.status = "returned"
                                    THEN send(q, tokenData, now)
                                    ELSE [q EXCEPT !.pc = "intercept_wait"]]
  /\ UNCHANGED <<now, tokenData, main, verified, direct, settings, listed, logging, sanitizing>>

(* The token exchange of the request interceptor returns. *)
InterceptorReply(r) ==
  /\ req[r].pc = "intercept_wait"
  /\ \E reply \in TokenReplies(NextToken(r, req[r])) :
       LET got == getAccessToken(tokenData, reply, now)
           q == ensureReturned(req[r], got, reply)
       IN /\ tokenData' = got.slot
          /\ req' = [req EXCEPT ![r] =
                       IF got.threw
                         THEN handlerFailed(q, AuthFailure)
                         ELSE send(q, got.slot, now)]
  /\ UNCHANGED <<now, main, verified, direct, settings, listed, logging, sanitizing>>

(***************************************************************************)
(* The resource endpoint replies.  The response interceptor answers a 401  *)
(* of a call that is not a replay by clearing the slot and checking the    *)
(* credential again; every other failure is rejected as it is.             *)
(***************************************************************************)
ResourceReply(r) ==
  /\ req[r].pc = "res_wait"
  /\ \E reply \in ResourceReplies :
       LET q == [req[r] EXCEPT !.replies = Append(@, reply)] IN
         IF reply.kind = "response" /\ reply.status = 200
           THEN /\ req' = [req EXCEPT ![r] =
                             respond(q, ToolResult(Stringify(r, q.resCalls)))]
                /\ UNCHANGED tokenData
           ELSE IF shouldRetry(reply, q.isRetry)
             THEN /\ tokenData' = NullToken
                  /\ req' = [req EXCEPT ![r] =
                               [ensureAccessToken(q, "response", NullToken, now)
                                  EXCEPT !.pc = "retry_wait"]]
             ELSE /\ req' = [req EXCEPT ![r] = handlerFailed(q, reply)]
                  /\ UNCHANGED tokenData
  /\ UNCHANGED <<now, main, verified, direct, settings, listed, logging, sanitizing>>

(* The token exchange of the response interceptor returns: replay the call. *)
RetryReply(r) ==
  /\ req[r].pc = "retry_wait"
  /\ \E reply \in TokenReplies(NextToken(r, req[r])) :
       LET got == getAccessToken(tokenData, reply, now)
           q == ensureReturned(req[r], got, reply)
       IN /\ tokenData' = got.slot
          /\ req' = [req EXCEPT ![r] =
                       IF got.threw
                         THEN handlerFailed(q, AuthFailure)
                         ELSE [q EXCEPT !.pc = "intercept",
                                        !.isRetry = TRUE,
                                        !.hdr = IF got.slot.kind # "null"
                                                  THEN Some(Bearer(got.slot)) ELSE @]]
  /\ UNCHANGED <<now, main, verified, direct, settings, listed, logging, sanitizing>>

(* A ListTools request is answered with the list of all the tools. *)
ListTools ==
  /\ main = "serving"
  /\ listed = Undefined
  /\ listed' = Some(allTools)
  /\ UNCHANGED <<now, tokenData, main, verified, req, direct, settings, logging,
                 sanitizing>>

Next ==
  \/ Tick
  \/ StartVerify
  \/ VerifyReply
  \/ \E r \in Requests : CallTool(r)
  \/ \E r \in Requests : EnsureReply(r)
  \/ \E r \in Requests : Dispatch(r)
  \/ \E r \in Requests : RequestInterceptor(r)
  \/ \E r \in Requests : InterceptorReply(r)
  \/ \E r \in Requests : ResourceReply(r)
  \/ \E r \in Requests : RetryReply(r)

Spec == Init /\ [][Next]_vars

(***************************************************************************)
(* The server with one CallTool request and a ListTools request, in any    *)
(* order, under each setting of the token cache time.                      *)
(***************************************************************************)
TokenCacheSettings == {120, DefaultTokenCacheSeconds}

InitServe ==
  /\ Constructed
  /\ tools = ShippedTools
  /\ tokenCacheSeconds \in TokenCacheSettings
  /\ logLevel = "info"
  /\ NoDirect
  /\ NoListing
  /\ NoLogging
  /\ NoSanitizing

NextServe ==
  \/ Tick
  \/ StartVerify
  \/ VerifyReply
  \/ ListTools
  \/ CallTool(1)
  \/ EnsureReply(1)
  \/ Dispatch(1)
  \/ RequestInterceptor(1)
  \/ InterceptorReply(1)
  \/ ResourceReply(1)
  \/ RetryReply(1)

SpecServe == InitServe /\ [][NextServe]_vars

(***************************************************************************)
(* The same server when every network call returns and the event loop      *)
(* runs every continuation that is ready: the reply of each exchange and   *)
(* of each resource call arrives, and the dispatcher and the request       *)
(* interceptor go on after their awaits.  Nothing obliges a client to send *)
(* a request, or the clock to advance.                                     *)
(***************************************************************************)
(* Weak fairness of Dispatch(r), with its enabling condition written out:  *)
(* the step is possible exactly when the request is past its credential   *)
(* check, and it always changes the request.                              *)
DispatchRuns(r) ==
  \/ []<>(req[r].pc # "token_ensured")
  \/ []<><<Dispatch(r)>>_vars

Returns ==
  /\ WF_vars(VerifyReply)
  /\ WF_vars(EnsureReply(1))
  /\ DispatchRuns(1)
  /\ WF_vars(RequestInterceptor(1))
  /\ WF_vars(InterceptorReply(1))
  /\ WF_vars(ResourceReply(1))
  /\ WF_vars(RetryReply(1))

SpecReturns == InitServe /\ [][NextServe]_vars /\ Returns

(***************************************************************************)
(* The server started on registries handed to the dispatcher: the ones     *)
(* shipped, and the ones shipped with one more descriptor in the user      *)
(* registry whose name the business registry, or the user registry         *)
(* itself, already has.                                                    *)
(***************************************************************************)
Registries ==
  {ShippedTools,
   [ShippedTools EXCEPT !.user = Append(userTools, "create_product")],
   [ShippedTools EXCEPT !.user = Append(userTools, "get_userinfo")]}

InitStartup ==
  /\ Constructed
  /\ tools \in Registries
  /\ tokenCacheSeconds = DefaultTokenCacheSeconds
  /\ logLevel = "info"
  /\ NoDirect
  /\ NoListing
  /\ NoLogging
  /\ NoSanitizing

SpecStartup == InitStartup /\ [][NextServe]_vars

(***************************************************************************)
(* validateInput called directly, on arguments assembled from the parts    *)
(* below: each part is the set of key-value pairs it contributes.          *)
(***************************************************************************)
FromPairs(pairs) ==
  JObj([k \in {p[1] : p \in pairs} |-> (CHOOSE p \in pairs : p[1] = k)[2]])

Unit == JObj([amount |-> UsdAmount])
UnitWithExtra == JObj([amount |-> UsdAmount, sku |-> JStr("S-1")])
UnitBadAmount ==
  JObj([amount |-> JObj([currency_code |-> JStr("US"), value |-> JStr("ten")])])

IntentParts ==
  {{}, {<<"intent", JStr("CAPTURE")>>}, {<<"intent", JStr("BOGUS")>>},
   {<<"intent", JNum(5)>>}}
UnitsParts ==
  {{}, {<<"purchase_units", JArr(<<>>)>>}, {<<"purchase_units", JArr(<<Unit>>)>>},
   {<<"purchase_units", JArr(<<UnitWithExtra>>)>>},
   {<<"purchase_units", JArr(<<Unit, UnitBadAmount>>)>>}}
ExtraParts == {{}, {<<"note", JStr("gift")>>}}

NameParts == {{}, {<<"name", JStr("Profile")>>}, {<<"name", JStr("")>>}}
FlowParts ==
  {{}, {<<"flow_config", EmptyObject>>},
   {<<"flow_config", JObj([landing_page_type |-> JStr("billing")])>>},
   {<<"flow_config", JObj([theme |-> JStr("dark")])>>}}

ProfileArgs == JObj([name |-> JStr("Profile")])
ProductIdArgs == JObj([product_id |-> JStr("PROD-1")])

(* Tool names without an entry in schemaMap, registered and not. *)
UnmappedNames ==
  {"get_product", "get_invoice", "get_web_profiles", "get_web_profile",
   "update_web_profile", "delete_web_profile", "no_such_tool"}

(* request.params.arguments as a client may send them. *)
AnyArguments ==
  {JUndefined, JNull, JStr("PROD-1"), JNum(7), JArr(<<JStr("a"), EmptyObject>>),
   EmptyObject, ProductIdArgs, FromPairs({<<"note", JStr("gift")>>}),
   JObj([profile_id |-> JNum(7), nested |-> JObj([deep |-> JArr(<<JNull>>)])])}

ValidationInputs ==
  {[name |-> "create_order", args |-> FromPairs(i \cup u \cup x)] :
     i \in IntentParts, u \in UnitsParts, x \in ExtraParts}
  \cup {[name |-> "create_web_profile", args |-> FromPairs(n \cup f \cup x)] :
          n \in NameParts, f \in FlowParts, x \in ExtraParts}
  \cup {[name |-> "get_userinfo", args |-> FromPairs(x)] : x \in ExtraParts}
  \cup {[name |-> n, args |-> a] : n \in UnmappedNames, a \in AnyArguments}

InitValidate ==
  /\ Constructed
  /\ DefaultSettings
  /\ NoListing
  /\ NoLogging
  /\ NoSanitizing
  /\ vPc = "input"
  /\ vIn \in ValidationInputs
  /\ vOut = NoValidation

Validate ==
  /\ vPc = "input"
  /\ vOut' = validateInput(vIn.name, vIn.args)
  /\ vPc' = "validated"
  /\ UNCHANGED <<now, tokenData, main, verified, req, vIn, settings, listed,
                 logging, sanitizing>>

NextValidate == Validate

SpecValidate == InitValidate /\ [][NextValidate]_vars

(***************************************************************************)
(* sanitizeForLogging called directly, and called again on what it         *)
(* returned, on nested structures of objects, arrays and scalars.          *)
(***************************************************************************)
Scalars ==
  {JUndefined, JNull, JStr("4111111111111111"), JStr("[REDACTED]"), JStr(""),
   JNum(0), JNum(123), JBool(FALSE)}
FieldNames == {"number", "clientSecret", "Token", "name", "card"}
Flat ==
  {EmptyObject, JArr(<<>>)}
    \cup {FromPairs({<<k, v>>}) : k \in FieldNames, v \in Scalars}
    \cup {JObj([number |-> v, name |-> w]) : v, w \in {JStr("4111111111111111"), JNum(123)}}
    \cup {JArr(<<v>>) : v \in Scalars}
Nested ==
  {FromPairs({<<k, x>>}) : k \in FieldNames, x \in Flat}
    \cup {JArr(<<x, JStr("4111111111111111")>>) : x \in Flat}
SanitizeInputs ==
  Scalars \cup Flat \cup Nested
    \cup {JObj([card |-> x, access_token |-> JStr("A21-secret")]) : x \in Nested}
    \cup {JArr(<<x>>) : x \in Nested}

InitSanitize ==
  /\ Constructed
  /\ DefaultSettings
  /\ NoDirect
  /\ NoListing
  /\ NoLogging
  /\ sPc = "input"
  /\ sIn \in SanitizeInputs
  /\ sOut = [once |-> JUndefined, twice |-> JUndefined]

Sanitize ==
  /\ sPc = "input"
  /\ sOut' = [once |-> sanitizeForLogging(sIn),
              twice |-> sanitizeForLogging(sanitizeForLogging(sIn))]
  /\ sPc' = "sanitized"
  /\ UNCHANGED <<now, tokenData, main, verified, req, direct, settings, listed,
                 logging, sIn>>

NextSanitize == Sanitize

SpecSanitize == InitSanitize /\ [][NextSanitize]_vars


(***************************************************************************)
(* The logger.  A line is written when the configured level is at least    *)
(* the level of the call.  The timestamp of a line is left out.  The text  *)
(* JSON.stringify makes of a value is given by the value: two values have  *)
(* the same text only if they are the same.                                *)
(***************************************************************************)
LOG_LEVELS == [error |-> 0, warn |-> 1, info |-> 2, debug |-> 3]
UpperCase == [error |-> "ERROR", warn |-> "WARN", info |-> "INFO", debug |-> "DEBUG"]
JSONStringify(v) == [t |-> "json", v |-> v]

(* An Error is written as its message and stack, an object as its JSON, *)
(* anything else as its string.                                          *)
FormatArg(arg) ==
  IF arg.t = "error" THEN arg
  ELSE IF TypeOf(arg) = "object" THEN JSONStringify(arg)
  ELSE arg

formatLogMessage(level, message, args) ==
  [level |-> UpperCase[level], message |-> message,
   args |-> [i \in 1..Len(args) |-> FormatArg(args[i])]]

logger(currentLevel, out, call) ==
  IF LOG_LEVELS[currentLevel] >= LOG_LEVELS[call.level]
    THEN Append(out, formatLogMessage(call.level, call.message, call.args))
    ELSE out

(* The console after a sequence of logger calls. *)
RECURSIVE Written(_, _, _)
Written(currentLevel, out, calls) ==
  IF calls = <<>> THEN out
  ELSE Written(currentLevel, logger(currentLevel, out, calls[1]), Tail(calls))

(* The first log line of each tool handler. *)
HandlerStart(toolName, args) ==
  CASE toolName = "create_payment_token" -> "Creating payment token"
    [] toolName = "create_order" -> "Creating order"
    [] toolName = "capture_order" -> "Capturing order: " \o Interpolate(args, "order_id")
    [] toolName = "create_payment" -> "Creating payment"
    [] toolName = "create_subscription" -> "Creating subscription"
    [] toolName = "create_product" -> "Creating product"
    [] toolName = "create_invoice" -> "Creating invoice"
    [] toolName = "create_payout" -> "Creating payout"
    [] toolName = "get_product" -> "Getting product: " \o Interpolate(args, "product_id")
    [] toolName = "get_invoice" -> "Getting invoice: " \o Interpolate(args, "invoice_id")
    [] toolName = "get_userinfo" -> "Getting user information"
    [] toolName = "create_web_profile" -> "Creating web profile"
    [] toolName = "get_web_profiles" -> "Getting web profiles"
    [] toolName = "get_web_profile" ->
         "Getting web profile: " \o Interpolate(args, "profile_id")
    [] toolName = "update_web_profile" ->
         "Updating web profile: " \o Interpolate(args, "profile_id")
    [] toolName = "delete_web_profile" ->
         "Deleting web profile: " \o Interpolate(args, "profile_id")

(* The method and url of the call each tool handler makes. *)
Endpoint(toolName, args) ==
  CASE toolName = "create_payment_token" ->
         [method |-> "post", url |-> "/v1/vault/payment-tokens"]
    [] toolName = "create_order" -> [method |-> "post", url |-> "/v2/checkout/orders"]
    [] toolName = "capture_order" ->
         [method |-> "post",
          url |-> "/v2/checkout/orders/" \o Interpolate(args, "order_id") \o "/capture"]
    [] toolName = "create_payment" -> [method |-> "post", url |-> "/v1/payments/payment"]
    [] toolName = "create_subscription" ->
         [method |-> "post", url |-> "/v1/billing/subscriptions"]
    [] toolName = "create_product" -> [method |-> "post", url |-> "/v1/catalogs/products"]
    [] toolName = "create_invoice" -> [method |-> "post", url |-> "/v2/invoicing/invoices"]
    [] toolName = "create_payout" -> [method |-> "post", url |-> "/v1/payments/payouts"]
    [] toolName = "get_product" ->
         [method |-> "get",
          url |-> "/v1/catalogs/products/" \o Interpolate(args, "product_id")]
    [] toolName = "get_invoice" ->
         [method |-> "get",
          url |-> "/v2/invoicing/invoices/" \o Interpolate(args, "invoice_id")]
    [] toolName = "get_userinfo" ->
         [method |-> "get", url |-> "/v1/identity/oauth2/userinfo?schema=paypalv1.1"]
    [] toolName = "create_web_profile" ->
         [method |-> "post", url |-> "/v1/payment-experience/web-profiles"]
    [] toolName = "get_web_profiles" ->
         [method |-> "get", url |-> "/v1/payment-experience/web-profiles"]
    [] toolName = "get_web_profile" ->
         [method |-> "get",
          url |-> "/v1/payment-experience/web-profiles/" \o Interpolate(args, "profile_id")]
    [] toolName = "update_web_profile" ->
         [method |-> "put",
          url |-> "/v1/payment-experience/web-profiles/" \o Interpolate(args, "profile_id")]
    [] toolName = "delete_web_profile" ->
         [method |-> "delete",
          url |-> "/v1/payment-experience/web-profiles/" \o Interpolate(args, "profile_id")]

(* The message of the error axios rejects a call with. *)
AxiosMessage(reply) ==
  IF reply.kind = "response"
    THEN "Request failed with status code " \o ToString(reply.status)
    ELSE "Network Error"

(***************************************************************************)
(* The logger calls of ensureAccessToken, by how it went: the credential   *)
(* was cached, was exchanged, or the exchange failed.                      *)
(***************************************************************************)
EnsureOutcomes == {"cached", "ok", "failed"}
ensureLogs(outcome) ==
  CASE outcome = "cached" -> <<>>
    [] outcome = "ok" ->
         <<LogCall("debug", "Getting new access token from PayPal", <<>>),
           LogCall("info", "Successfully obtained new access token", <<>>)>>
    [] outcome = "failed" ->
         <<LogCall("debug", "Getting new access token from PayPal", <<>>),
           LogCall("error", "Failed to get access token:",
                   <<JError(AxiosMessage(HttpReply(401)))>>)>>

(* The logger call of the response interceptor for a reply with a response. *)
apiErrorLog(call, status, data) ==
  LogCall("error", "PayPal API Error:",
          <<JObj([status |-> JNum(status), data |-> sanitizeForLogging(data),
                  url |-> JStr(Endpoint(call.name, call.args).url),
                  method |-> JStr(Endpoint(call.name, call.args).method)])>>)

(* The logger calls of the handler's catch and of the dispatcher's catch. *)
failureLogs(call, validated, message) ==
  <<LogCall("error", HandlerFailure(call.name, validated) \o ":", <<JError(message)>>),
    LogCall("error", "Error executing tool " \o call.name \o ":",
            <<JError(HandlerFailure(call.name, validated))>>)>>

(***************************************************************************)
(* The log lines of one CallTool request, at each log level, for tool      *)
(* arguments and response bodies with sensitive fields at several depths.  *)
(***************************************************************************)
CardNumber == "4111111111111111"
CardArgs ==
  JObj([customer |-> JObj([id |-> JStr("C-1")]),
        payment_source |->
          JObj([card |-> JObj([number |-> JStr(CardNumber), expiry |-> JStr("1230"),
                               name |-> JStr("A Buyer"),
                               security_code |-> JStr("123")])])])
LogCalls ==
  {[name |-> "create_payment_token", args |-> CardArgs],
   [name |-> "create_payment_token", args |-> EmptyObject],
   [name |-> "create_order", args |-> OrderArgs],
   [name |-> "get_product", args |-> ProductIdArgs],
   [name |-> "no_such_tool", args |-> EmptyObject]}
LogBodies ==
  {JUndefined,
   JStr("Bad Gateway"),
   JObj([name |-> JStr("UNPROCESSABLE_ENTITY"),
         details |-> JArr(<<JObj([field |-> JStr("/payment_source/card"),
                                  card |-> JObj([number |-> JStr(CardNumber)])])>>)]),
   JObj([error |-> JStr("invalid_token"), access_token |-> JStr("A21-secret")])}

InitLog ==
  /\ Constructed
  /\ tools = ShippedTools
  /\ tokenCacheSeconds = DefaultTokenCacheSeconds
  /\ logLevel \in DOMAIN LOG_LEVELS
  /\ NoDirect
  /\ NoListing
  /\ NoSanitizing
  /\ lPc = "input"
  /\ lIn \in [call : LogCalls, data : LogBodies]
  /\ console = <<>>

Logged(calls) == console' = Written(logLevel, console, calls)
LogFrame ==
  UNCHANGED <<now, tokenData, main, verified, req, direct, settings, listed,
              sanitizing, lIn>>

(* The dispatcher logs the call and its arguments and checks the credential. *)
LogCallTool ==
  /\ lPc = "input"
  /\ \E outcome \in EnsureOutcomes :
       /\ Logged(<<LogCall("info", "Tool call: " \o lIn.call.name, <<>>),
                   LogCall("debug", "Tool arguments: ",
                           <<JSONStringify(lIn.call.args)>>)>>
                 \o ensureLogs(outcome)
                 \o IF outcome = "failed"
                      THEN <<LogCall("error",
                                     "Error executing tool " \o lIn.call.name \o ":",
                                     <<JError(AuthFailureMessage)>>)>>
                      ELSE <<>>)
       /\ lPc' = IF outcome = "failed" THEN "done" ELSE "token_ensured"
  /\ LogFrame

(* The dispatcher resolves the handler and validates; the handler starts. *)
LogDispatch ==
  /\ lPc = "token_ensured"
  /\ IF getToolHandler(lIn.call.name) = Undefined
       THEN /\ lPc' = "done"
            /\ UNCHANGED console
       ELSE LET v == validateInput(lIn.call.name, lIn.call.args) IN
              IF v.threw
                THEN /\ Logged(v.logs)
                     /\ lPc' = "done"
                ELSE /\ Logged(v.logs \o <<LogCall("info",
                                                   HandlerStart(lIn.call.name, v.value),
                                                   <<>>)>>)
                     /\ lPc' = "intercept"
  /\ LogFrame

(* The request interceptor checks the credential, for the call or its replay. *)
LogRequestInterceptor ==
  /\ lPc \in {"intercept", "replay_intercept"}
  /\ \E outcome \in EnsureOutcomes :
       LET validated == validateInput(lIn.call.name, lIn.call.args).value IN
         IF outcome = "failed"
           THEN /\ Logged(ensureLogs(outcome)
                          \o failureLogs(lIn.call, validated, AuthFailureMessage))
                /\ lPc' = "done"
           ELSE /\ Logged(ensureLogs(outcome))
                /\ lPc' = IF lPc = "intercept" THEN "res_wait" ELSE "replay_wait"
  /\ LogFrame

(* The resource endpoint replies, with the body of the input when it fails. *)
LogResourceReply ==
  /\ lPc \in {"res_wait", "replay_wait"}
  /\ \E reply \in ResourceReplies, refresh \in {"ok", "failed"} :
       LET validated == validateInput(lIn.call.name, lIn.call.args).value
           api == IF reply.kind = "response"
                    THEN <<apiErrorLog(lIn.call, reply.status, lIn.data)>>
                    ELSE <<>>
       IN
         IF reply = HttpReply(200)
           THEN /\ lPc' = "done"
                /\ UNCHANGED console
         ELSE IF shouldRetry(reply, lPc = "replay_wait")
           THEN /\ Logged(api
                          \o <<LogCall("info", "Access token expired, refreshing...",
                                       <<>>)>>
                          \o ensureLogs(refresh)
                          \o IF refresh = "failed"
                               THEN failureLogs(lIn.call, validated, AuthFailureMessage)
                               ELSE <<>>)
                /\ lPc' = IF refresh = "failed" THEN "done" ELSE "replay_intercept"
           ELSE /\ Logged(api \o failureLogs(lIn.call, validated, AxiosMessage(reply)))
                /\ lPc' = "done"
  /\ LogFrame

NextLog ==
  \/ LogCallTool
  \/ LogDispatch
  \/ LogRequestInterceptor
  \/ LogResourceReply

SpecLog == InitLog /\ [][NextLog]_vars

(***************************************************************************)
(* Properties.                                                             *)
(***************************************************************************)
Last(seq) == seq[Len(seq)]
RegisteredNames == Names(paymentTools) \cup Names(businessTools) \cup Names(userTools)

(* A credential check that found an unexpired credential made no exchange. *)
EnsureCacheHit(e) ==
  /\ e.status = "returned"
  /\ e.calls = 0
  /\ e.exchange = "none"
  /\ e.ret = e.cached

(* A credential check that found none made one exchange. *)
EnsureCacheMiss(e) ==
  /\ e.calls = 1
  /\ e.status = "returned" => e.exchange # "none"

EnsureRecorded ==
  \A r \in Requests :
    LET e == req[r].ens IN
      e.status # "none" => IF e.unexpired THEN EnsureCacheHit(e) ELSE EnsureCacheMiss(e)

(* Token-endpoint calls are made one at a time, by a credential check that *)
(* is left pending; the check that returns from one returns the token it   *)
(* has just stored.                                                        *)
EnsureStep ==
  \A r \in Requests :
    /\ req'[r].tokCalls # req[r].tokCalls =>
         /\ req'[r].ens.status = "pending"
         /\ req'[r].tokCalls = (IF req[r].pc = "idle" THEN 0 ELSE req[r].tokCalls) + 1
    /\ (req[r].ens.status = "pending" /\ req'[r].ens.status = "returned") =>
         /\ req'[r].ens.ret = tokenData'.access_token
         /\ req'[r].tokCalls = req[r].tokCalls

(* C1: ensureAccessToken called while the slot holds a credential with     *)
(* now < expiration returns that credential's token without any call to    *)
(* the token endpoint; called while the slot is absent or expired it makes *)
(* exactly one call to the token endpoint before returning and, on         *)
(* success, returns the token it has just stored.                          *)
C1_EnsureAccessToken == []EnsureRecorded /\ [][EnsureStep]_vars

(* A request has had a cache hit while another has returned from an exchange. *)
C1_Witness ==
  \E r1, r2 \in Requests :
    /\ req[r1].ens.status = "returned" /\ req[r1].ens.unexpired
    /\ req[r2].ens.status = "returned" /\ ~req[r2].ens.unexpired
    /\ req[r2].ens.exchange = "ok"

TwoRejections(q) ==
  /\ Len(q.replies) = 2
  /\ q.replies[1] = HttpReply(401)
  /\ q.replies[2] = HttpReply(401)

SecondRejectionSurfaced ==
  \A r \in Requests :
    /\ req[r].resCalls <= 2
    /\ TwoRejections(req[r]) =>
         /\ req[r].pc = "done"
         /\ req[r].resCalls = 2
         /\ req[r].gwError = HttpReply(401)
         /\ req[r].response.isError

SecondRejectionStep ==
  \A r \in Requests :
    (~TwoRejections(req[r]) /\ TwoRejections(req'[r])) =>
      /\ tokenData' = tokenData
      /\ req'[r].tokCalls = req[r].tokCalls
      /\ req'[r].resCalls = req[r].resCalls

(* C2: a resource call rejected with 401 and rejected with 401 again on    *)
(* its replay fails after that one replay: the resource endpoint has been  *)
(* called exactly twice, and the second 401 neither clears the slot nor    *)
(* starts a token exchange or another replay.                              *)
C2_SingleReplay == []SecondRejectionSurfaced /\ [][SecondRejectionStep]_vars

C2_Witness ==
  \E r \in Requests : req[r].pc = "done" /\ TwoRejections(req[r])

(* C3: every call to a resource endpoint, original or replay, carries a    *)
(* bearer header built from the slot, and the credential in the slot is    *)
(* unexpired (now < expiration) when it is attached.                       *)
C3_SentWithUnexpiredCredential ==
  \A r \in Requests :
    req[r].pc = "res_wait" => req[r].hdr # Undefined /\ req[r].sentUnexpired

OtherFailure(reply) ==
  reply # HttpReply(200) /\ reply # HttpReply(401)

OtherFailureStep ==
  \A r \in Requests :
    (/\ req[r].pc = "res_wait"
     /\ Len(req'[r].replies) = Len(req[r].replies) + 1
     /\ OtherFailure(Last(req'[r].replies))) =>
      /\ req'[r].pc = "done"
      /\ req'[r].gwError = Last(req'[r].replies)
      /\ req'[r].resCalls = req[r].resCalls
      /\ req'[r].tokCalls = req[r].tokCalls
      /\ tokenData' = tokenData

(* C4: a resource call that fails with anything but a 401 (another 4xx, a  *)
(* 5xx, a network failure) is not sent again, causes no token exchange,    *)
(* leaves the slot as it is, and is rejected with the original error.      *)
C4_OtherFailuresSurfaced == [][OtherFailureStep]_vars

C4_Witness ==
  \E r1, r2 \in Requests :
    /\ req[r1].pc = "done" /\ req[r1].gwError = NetworkError
    /\ req[r2].pc = "done" /\ req[r2].gwError = HttpReply(403)
    /\ req[r2].resCalls = 1 /\ req[r1].resCalls = 1

WellFormedSlot ==
  tokenData.kind = "null"
    \/ (/\ tokenData.kind = "object"
        /\ tokenData.access_token # Undefined
        /\ tokenData.expires_in # Undefined)

(* C5: a token exchange that fails (network error, non-2xx reply, 2xx      *)
(* reply with a malformed body) makes the acquisition fail, and the slot   *)
(* then holds nothing of the failed exchange.                              *)
C5_FailedExchangeLeavesNothing ==
  /\ WellFormedSlot
  /\ \A r \in Requests :
       req[r].ens.status = "returned" => req[r].ens.exchange \in {"none", "ok"}

InvalidArguments(q) ==
  q.name \in DOMAIN schemaMap /\ validateInput(q.name, q.args).threw

(* C6: a request whose arguments fail validation is rejected before any    *)
(* call to the token endpoint or to a resource endpoint is made for it.    *)
C6_InvalidArgumentsNoNetwork ==
  \A r \in Requests :
    (req[r].pc # "idle" /\ InvalidArguments(req[r])) =>
      req[r].tokCalls = 0 /\ req[r].resCalls = 0

(* C7: when the invoked handler fails with its domain error, the request   *)
(* ends with a protocol response whose payload has isError set and one     *)
(* text item with the message of the error, never with a protocol error.   *)
C7_HandlerFailureIsToolError ==
  \A r \in Requests :
    (req[r].pc = "done" /\ req[r].invoked > 0 /\ req[r].gwError # NoError) =>
      /\ req[r].response.protocol = "response"
      /\ req[r].response.isError
      /\ req[r].response.content =
           <<TextItem("Error: " \o HandlerFailure(req[r].name, req[r].validated))>>

C7_Witness ==
  \E r \in Requests :
    /\ req[r].pc = "done"
    /\ req[r].gwError = HttpReply(500)
    /\ req[r].response.content = <<TextItem("Error: Failed to create order")>>

(* C8: a request for a name in no registry ends with the protocol error    *)
(* MethodNotFound and calls no handler, whatever the slot holds and        *)
(* however the token exchange goes.                                        *)
C8_UnknownToolMethodNotFound ==
  \A r \in Requests :
    (req[r].pc = "done" /\ req[r].name \notin RegisteredNames) =>
      /\ req[r].response = McpError("MethodNotFound", "Unknown tool: " \o req[r].name)
      /\ req[r].invoked = 0

(* C9: a request whose arguments violate the registered schema of its tool *)
(* ends with the protocol error InvalidParams whose message lists every    *)
(* violated path with its reason; the handler is not called and no         *)
(* resource call is made.                                                  *)
C9_InvalidArgumentsInvalidParams ==
  \A r \in Requests :
    (req[r].pc = "done" /\ InvalidArguments(req[r])) =>
      /\ req[r].response =
           McpError("InvalidParams", validateInput(req[r].name, req[r].args).message)
      /\ req[r].invoked = 0
      /\ req[r].resCalls = 0

C12_SanitizeIdempotent ==
  sPc = "sanitized" => sOut.twice = sOut.once

(* A structure with a sensitive field two levels down, which was redacted. *)
C12_Witness ==
  /\ sPc = "sanitized"
  /\ sIn.t = "object" /\ "card" \in DOMAIN sIn.o
  /\ sIn.o["card"].t = "array"
  /\ sOut.once # sIn
  /\ sOut.once.o["card"].a[1] = JObj([number |-> Redacted, name |-> JNum(123)])
  /\ sOut.twice = sOut.once

(* A request starts a credential check in this step. *)
StartsCheck(r) ==
  /\ req[r].ens.status # "pending"
  /\ req'[r].ens # req[r].ens
  /\ req'[r].ens.site # "none"

(* A check that finds no unexpired credential while the exchange of the    *)
(* other request is in flight starts an exchange of its own.               *)
NoLock ==
  \A r, o \in Requests :
    (/\ r # o
     /\ req[o].ens.status = "pending"
     /\ StartsCheck(r)
     /\ ~TokenValid(tokenData, now)) =>
      /\ req'[r].ens.status = "pending"
      /\ req'[r].ens.calls = 1
      /\ req'[r].tokCalls = (IF req[r].pc = "idle" THEN 0 ELSE req[r].tokCalls) + 1
      /\ req'[o] = req[o]

(* The exchange of a request returns well formed: the slot then holds its  *)
(* credential, whatever it held, the check returns the token of that       *)
(* credential, the request goes on, and the other request is not touched.  *)
LastWriteWins ==
  \A r \in Requests :
    (/\ req[r].ens.status = "pending"
     /\ req'[r].ens.status = "returned"
     /\ req'[r].ens.exchange = "ok") =>
      /\ tokenData'.kind = "object"
      /\ tokenData'.access_token = Some(NextToken(r, req[r]))
      /\ req'[r].ens.ret = Some(NextToken(r, req[r]))
      /\ req'[r].pc \in {"token_ensured", "res_wait", "intercept"}
      /\ \A o \in Requests \ {r} : req'[o] = req[o]

(* C14: two overlapping requests that both find the credential absent or   *)
(* stale each make their own token exchange, neither waiting for the       *)
(* other; each exchange that succeeds stores its credential over what the  *)
(* slot holds, so that the slot holds the credential stored last, and each *)
(* request goes on with the credential of a successful exchange.           *)
C14_IndependentExchanges == [][NoLock /\ LastWriteWins]_vars

(* Both requests found no credential, both exchanges succeeded, the second *)
(* request checked before the first stored, and the slot holds the         *)
(* credential of the second.                                               *)
C14_Witness ==
  /\ \A r \in Requests :
       /\ req[r].pc = "token_ensured"
       /\ req[r].ens.site = "dispatcher"
       /\ req[r].ens.exchange = "ok"
       /\ req[r].ens.cached = Undefined
       /\ req[r].ens.ret = Some(<<r, 1>>)
       /\ req[r].tokCalls = 1
  /\ tokenData.kind = "object"
  /\ tokenData.access_token = Some(<<2, 1>>)

(* The replay of request r is answered with 200 in this step. *)
ReplayAnswered(r) ==
  /\ req[r].pc = "res_wait"
  /\ req[r].isRetry
  /\ req'[r].pc = "done"
  /\ Last(req'[r].replies) = HttpReply(200)

(* C15: when a resource call is answered with 401 and its replay, made     *)
(* with a freshly acquired credential, with 200, the caller gets the body  *)
(* of the 200 response, the resource endpoint has been called exactly      *)
(* twice, and the token endpoint exactly once since the 401: by the        *)
(* refresh, and not again before the replay was sent.                      *)
C15_ReplayWithOneExchange ==
  [][\A r \in Requests :
       /\ req'[r].pc = "retry_wait" => req'[r].ens.calls = 1
       /\ ReplayAnswered(r) =>
            /\ req'[r].replies = <<HttpReply(401), HttpReply(200)>>
            /\ req'[r].response = ToolResult(Stringify(r, 2))
            /\ req'[r].resCalls = 2
            /\ req[r].ens.site = "request"
            /\ req[r].ens.calls = 0]_vars

(* C16: a request whose credential check at the dispatcher found the slot  *)
(* stale and exchanged successfully sends its resource call after exactly  *)
(* one token-endpoint call, whatever lifetime the token endpoint reported. *)
(* At the first send, ens is the check of the request interceptor, so      *)
(* tokCalls - ens.calls are the calls of the dispatcher's check.           *)
C16_OneExchangeBeforeCall ==
  \A r \in Requests :
    (/\ req[r].pc = "res_wait"
     /\ ~req[r].isRetry
     /\ req[r].tokCalls - req[r].ens.calls = 1) =>
      /\ req[r].tokCalls = 1
      /\ req[r].resCalls = 1

(* C17: the answer to a ListTools request lists every tool of the payment, *)
(* business and user registries, and answering it calls neither the token  *)
(* endpoint nor a resource endpoint and leaves the slot, and everything    *)
(* but the answer, as it was, whatever the slot holds.                     *)
C17_ListToolsNoEffect ==
  [][listed' # listed =>
       /\ listed' # Undefined
       /\ Names(listed'[1]) = RegisteredNames
       /\ Len(listed'[1]) = Len(paymentTools) + Len(businessTools) + Len(userTools)
       /\ tokenData' = tokenData
       /\ req' = req
       /\ <<now, main, verified>>' = <<now, main, verified>>]_vars

(* The list was answered while the slot held an expired credential and a  *)
(* token exchange was in flight.                                          *)
C17_Witness ==
  /\ listed # Undefined
  /\ tokenData.kind = "object"
  /\ tokenData.access_token # Undefined
  /\ ~TokenValid(tokenData, now)
  /\ req[1].pc = "ensure_wait"
  /\ req[1].tokCalls = 1

(* C18: verifyCredentials returns true exactly when its token exchange     *)
(* succeeded, that is, when it stored a credential with an access token    *)
(* and a lifetime, and false on any failure of the exchange.               *)
C18_VerifiedIffExchanged ==
  [][main = "verifying" /\ main' = "serving" =>
       /\ verified' \in {Some(TRUE), Some(FALSE)}
       /\ verified' = Some(TRUE) <=>
            (/\ tokenData'.kind = "object"
             /\ tokenData'.access_token # Undefined
             /\ tokenData'.expires_in # Undefined)]_vars

(* C19: every credential stored by an acquisition expires at the instant  *)
(* it was stored plus its reported lifetime in seconds minus 60 seconds,   *)
(* under every setting of the token cache time.                            *)
C19_ExpiryFromLifetime ==
  [][(/\ tokenData' # tokenData
      /\ tokenData'.kind = "object"
      /\ tokenData'.expires_in # Undefined) =>
       tokenData'.expiration =
         Some(now + (tokenData'.expires_in[1] * 1000) - 60000)]_vars

(* Under a cache time of 120 seconds a credential of lifetime 90 seconds  *)
(* was stored one tick after the start and expires 30 seconds later.      *)
C19_Witness ==
  /\ tokenCacheSeconds = 120
  /\ now = Epoch + TickMs
  /\ tokenData.kind = "object"
  /\ tokenData.access_token # Undefined
  /\ tokenData.expires_in = Some(90)
  /\ tokenData.expiration = Some(now + 30000)

SensitiveNames ==
  {"secret", "client_secret", "password", "number", "card_number", "security_code",
   "cvv", "cvv2", "access_token", "refresh_token", "token"}

(* The strings that are values of sensitive fields of v, at any depth. *)
RECURSIVE SensitiveValues(_)
SensitiveValues(v) ==
  CASE v.t = "object" ->
         UNION {IF k \in SensitiveNames
                  THEN (IF v.o[k].t = "string" THEN {v.o[k].s} ELSE {})
                  ELSE SensitiveValues(v.o[k]) : k \in DOMAIN v.o}
    [] v.t = "array" -> UNION {SensitiveValues(v.a[i]) : i \in 1..Len(v.a)}
    [] OTHER -> {}

(* The string occurs in what was written for an argument of a log call. *)
RECURSIVE Mentions(_, _)
Mentions(v, str) ==
  CASE v.t \in {"string", "error"} -> v.s = str
    [] v.t = "json" -> Mentions(v.v, str)
    [] v.t = "object" -> \E k \in DOMAIN v.o : Mentions(v.o[k], str)
    [] v.t = "array" -> \E i \in 1..Len(v.a) : Mentions(v.a[i], str)
    [] OTHER -> FALSE

(* C13: no line written while a CallTool request is served, at any log     *)
(* level, has the value of a sensitive field of the tool arguments or of a *)
(* response body, at any depth; such a field shows as the marker only.     *)
C13_NoSensitiveValueLogged ==
  \A i \in 1..Len(console) :
    \A str \in SensitiveValues(lIn.call.args) \cup SensitiveValues(lIn.data) :
      \A j \in 1..Len(console[i].args) : ~Mentions(console[i].args[j], str)

(* The argument, or an object or array element nested in it, has a key the *)
(* shape does not declare.                                                 *)
RECURSIVE HasUndeclaredField(_, _)
HasUndeclaredField(schema, v) ==
  CASE schema.k = "object" /\ v.t = "object" ->
         \/ DOMAIN v.o \ ShapeKeys(schema.shape) # {}
         \/ \E i \in 1..Len(schema.shape) :
              /\ schema.shape[i].key \in DOMAIN v.o
              /\ HasUndeclaredField(schema.shape[i].schema, v.o[schema.shape[i].key])
    [] schema.k = "array" /\ v.t = "array" ->
         \E i \in 1..Len(v.a) : HasUndeclaredField(schema.element, v.a[i])
    [] OTHER -> FALSE

(* Arguments made of exactly the required fields, with conforming values. *)
RequiredOnly ==
  [create_order |-> OrderArgs, create_web_profile |-> ProfileArgs,
   get_userinfo |-> EmptyObject]

(* C10: for a tool with a registered shape, arguments with a field the     *)
(* shape does not declare, at the top or in a nested object, fail          *)
(* validation, and arguments of exactly the required fields with           *)
(* conforming values pass.                                                 *)
C10_ValidationClosure ==
  (vPc = "validated" /\ vIn.name \in DOMAIN schemaMap) =>
    /\ HasUndeclaredField(schemaMap[vIn.name], vIn.args) => vOut.threw
    /\ (vIn.name \in DOMAIN RequiredOnly /\ vIn.args = RequiredOnly[vIn.name]) =>
         ~vOut.threw

(* C21: a CallTool request whose dispatcher credential check fails (the    *)
(* token acquisition it started failed) ends with a protocol error, not    *)
(* with a protocol response.                                               *)
C21_FailedCheckIsProtocolError ==
  [][\A r \in Requests :
       (req[r].pc = "ensure_wait" /\ req'[r].pc = "done") =>
         req'[r].response.protocol = "error"]_vars

(* C22: two requests for the same tool with the same arguments whose       *)
(* handler was invoked and whose gateway call was rejected end with the    *)
(* same response, the message of the tool, whatever the gateway rejected   *)
(* with (a status code, a network error, the authentication failure).      *)
C22_SurfacedFailureIndependent ==
  \A r1, r2 \in Requests :
    (/\ req[r1].pc = "done" /\ req[r2].pc = "done"
     /\ req[r1].name = req[r2].name /\ req[r1].args = req[r2].args
     /\ req[r1].invoked = 1 /\ req[r2].invoked = 1
     /\ req[r1].gwError # NoError /\ req[r2].gwError # NoError) =>
       /\ req[r1].response = req[r2].response
       /\ req[r1].response = ToolError(HandlerFailure(req[r1].name, req[r1].validated))

(* Two calls of create_order with the same arguments failed, one on a      *)
(* network error after a replay, the other on a 500 reply.                 *)
C22_Witness ==
  \E r1, r2 \in Requests :
    /\ req[r1].pc = "done" /\ req[r2].pc = "done"
    /\ req[r1].name = "create_order" /\ req[r2].name = "create_order"
    /\ req[r1].args = req[r2].args
    /\ req[r1].gwError = NetworkError /\ req[r1].resCalls = 2
    /\ req[r2].gwError = HttpReply(500) /\ req[r2].resCalls = 1
    /\ req[r1].response.isError /\ req[r2].response.isError

(* The handler of request r is invoked in this step. *)
Invokes(r) == req'[r].invoked # req[r].invoked

(* The steps of request r come in order and its response is produced once: *)
(* the handler is invoked from the dispatcher, once, for a name that has a *)
(* handler and arguments that validateInput lets through; nothing is left  *)
(* to do after the response.                                               *)
StepsInOrder(r) ==
  /\ Invokes(r) =>
       /\ req[r].pc = "token_ensured"
       /\ req[r].ens.site = "dispatcher"
       /\ req[r].ens.status = "returned"
       /\ getToolHandler(req[r].name) # Undefined
       /\ ~validateInput(req[r].name, req[r].args).threw
       /\ req[r].invoked = 0 /\ req'[r].invoked = 1
  /\ req[r].pc # "done" => req[r].response = NoResponse
  /\ (req[r].pc # "done" /\ req'[r].pc = "done") => req'[r].response # NoResponse
  /\ req[r].pc = "done" => req'[r] = req[r]

(* C23: for every CallTool request, alone or interleaved with another, the *)
(* handler is invoked at most once and only after the credential check of  *)
(* that request succeeded (it returned a token), the handler was resolved  *)
(* and the arguments passed validation, and the request produces exactly   *)
(* one response.                                                           *)
C23_OrderedSteps ==
  [][\A r \in Requests :
       /\ StepsInOrder(r)
       /\ Invokes(r) => req[r].ens.ret # Undefined]_vars

(* The slot holds a credential with its token, token kind, lifetime and expiration. *)
CompleteCredential(td) ==
  /\ td.kind = "object"
  /\ td.access_token # Undefined
  /\ td.token_type # Undefined
  /\ td.expires_in # Undefined
  /\ td.expiration # Undefined

(* A token exchange of request r, or of verifyCredentials, returns in this step. *)
ExchangeReturns ==
  \/ main = "verifying" /\ main' = "serving"
  \/ \E r \in Requests :
       /\ req[r].pc \in {"ensure_wait", "intercept_wait", "retry_wait"}
       /\ req'[r].pc # req[r].pc

(* The response interceptor of request r clears the slot on a 401 in this step. *)
Invalidates ==
  \E r \in Requests :
    /\ req[r].pc = "res_wait" /\ req'[r].pc = "retry_wait"
    /\ Last(req'[r].replies) = HttpReply(401)

(* The slot changes by the return of a token exchange, which replaces it   *)
(* by a complete credential, or by the invalidation, which clears it.      *)
SlotChange ==
  tokenData' # tokenData =>
    \/ ExchangeReturns /\ CompleteCredential(tokenData')
    \/ Invalidates /\ tokenData' = NullToken

(* C24: in every reachable state the slot is absent or holds a complete    *)
(* credential, and it changes only by a successful acquisition, which      *)
(* replaces all of it, or by the invalidation on a 401, never in a step of *)
(* a handler, of the validator or of the dispatcher.                       *)
C24_SlotAbsentOrComplete ==
  /\ [](tokenData = NullToken \/ CompleteCredential(tokenData))
  /\ [][SlotChange]_vars

(* Request r is waiting for the reply of a token exchange. *)
InExchange(r) == req[r].pc \in {"ensure_wait", "intercept_wait", "retry_wait"}

(* The token call of a credential check passed no interceptor, triggered   *)
(* no credential check and carries the Basic header.                       *)
TokenCallDirect ==
  \A r \in Requests :
    LET e == req[r].ens IN
      /\ e.calls <= 1
      /\ e.calls = 1 =>
           /\ ~Intercepted(e.call)
           /\ e.call.checks = 0
           /\ e.call.Authorization = Some(BasicAuth)

(* The return of a token exchange starts no other one, and a rejected one  *)
(* ends the request at once: the slot is not cleared and no call is sent   *)
(* again.                                                                  *)
ExchangeReturnStep ==
  \A r \in Requests :
    (InExchange(r) /\ req'[r].pc # req[r].pc) =>
      /\ req'[r].tokCalls = req[r].tokCalls
      /\ ~InExchange(r)'
      /\ req'[r].pc = "done" =>
           /\ req'[r].resCalls = req[r].resCalls
           /\ tokenData' = NullToken => tokenData = NullToken

(* C25: the token call never passes through the gateway: it triggers no    *)
(* credential check, carries the Basic header and never a Bearer header,   *)
(* and its rejection triggers neither an invalidation nor a replay, so one *)
(* acquisition makes exactly one call to the token endpoint.               *)
C25_ExchangeOutsideGateway == []TokenCallDirect /\ [][ExchangeReturnStep]_vars

(* The request interceptor's check found an expired credential in the slot *)
(* and its token call is in flight, with the Basic header.                 *)
C25_Witness ==
  \E r \in Requests :
    /\ req[r].pc = "intercept_wait"
    /\ req[r].ens.calls = 1
    /\ req[r].ens.call.Authorization = Some(BasicAuth)
    /\ CompleteCredential(tokenData)
    /\ ~TokenValid(tokenData, now)

(* C26: when a resource call that is not a replay is answered with 401 and *)
(* the acquisition forced by it fails, no replay is sent, the slot is left *)
(* absent and the gateway rejects with the authentication failure, not     *)
(* with the 401.                                                           *)
C26_FailedRefreshSurfaced ==
  [][\A r \in Requests :
       (req[r].pc = "retry_wait" /\ req'[r].pc = "done") =>
         /\ req'[r].resCalls = 1
         /\ req'[r].replies = <<HttpReply(401)>>
         /\ req'[r].gwError = AuthFailure
         /\ tokenData' = NullToken]_vars

(* The calls made for a request stay within two resource calls and four    *)
(* token calls, and a request that has its response has exactly that one.  *)
CallsBounded ==
  \A r \in Requests :
    /\ req[r].resCalls <= 2
    /\ req[r].tokCalls <= 4
    /\ req[r].pc = "done" <=> req[r].response # NoResponse

(* C27: provided every network call returns, every CallTool request        *)
(* eventually produces its one response, after at most two calls to the    *)
(* resource endpoint and at most four calls to the token endpoint.         *)
C27_EveryRequestResponds ==
  /\ []CallsBounded
  /\ [][\A r \in Requests : req[r].pc = "done" => req'[r] = req[r]]_vars
  /\ \A r \in Requests : (req[r].pc # "idle") ~> (req[r].pc = "done")

(* A request got its response after two resource calls and four token calls. *)
C27_Witness ==
  \E r \in Requests :
    /\ req[r].pc = "done"
    /\ req[r].resCalls = 2
    /\ req[r].tokCalls = 4
    /\ req[r].response # NoResponse

(* Every field of value v that carries a name of the list, at any depth,   *)
(* is the redaction text in the sanitized value w.                         *)
RECURSIVE ListedRedacted(_, _)
ListedRedacted(v, w) ==
  CASE v.t = "object" ->
         /\ w.t = "object"
         /\ DOMAIN w.o = DOMAIN v.o
         /\ \A k \in DOMAIN v.o :
              IF Includes(sensitiveFields, k)
                THEN w.o[k] = Redacted
                ELSE ListedRedacted(v.o[k], w.o[k])
    [] v.t = "array" ->
         /\ w.t = "array"
         /\ Len(w.a) = Len(v.a)
         /\ \A i \in 1..Len(v.a) : ListedRedacted(v.a[i], w.a[i])
    [] OTHER -> TRUE

(* C28: for every name in the list of sensitive field names, an object     *)
(* with a field of exactly that name, at any nesting depth, is returned    *)
(* with the value of that field replaced by '[REDACTED]'.                  *)
C28_ListedNamesRedacted ==
  sPc = "sanitized" => ListedRedacted(sIn, sOut.once)
====
